---- MODULE Spec2Model ----
(***************************************************************************)
(* Hangul composition engine of TypeKorean (utils/hangulComposer.ts).      *)
(*                                                                         *)
(* A character is its UTF-16 code unit (an integer); a string is a         *)
(* sequence of characters.  The empty string '' passed or returned as a    *)
(* single jamo, and the null returned by a table miss, are both the falsy  *)
(* value Empty.                                                            *)
(***************************************************************************)
EXTENDS Integers, Sequences, FiniteSets, TLC

VARIABLES text, prev, key, op, target, pos, result,
          typed, currentWordIndex, wordsBatch, pending, db, dbBefore,
          isShiftPressed

vars == <<text, prev, key, op, target, pos, result,
          typed, currentWordIndex, wordsBatch, pending, db, dbBefore,
          isShiftPressed>>

\* the typing screen's word state, and the database with its value before
\* the last call
appVars == <<currentWordIndex, wordsBatch, pending>>

dbVars == <<db, dbBefore>>

(***************************************************************************)
(* Constants and tables                                                    *)
(***************************************************************************)
HANGUL_BASE == 44032      \* 0xac00
HANGUL_LAST == 55203      \* 0xd7a3
Empty == 0                \* '' (FINALS[0]) and null

\* g kk n d tt r m b pp s ss ng j jj ch k t p h
INITIALS == << 12593, 12594, 12596, 12599, 12600, 12601, 12609, 12610, 12611,
               12613, 12614, 12615, 12616, 12617, 12618, 12619, 12620, 12621,
               12622 >>

\* a ae ya yae eo e yeo ye o wa wae oe yo u wo we wi yu eu ui i
VOWELS == << 12623, 12624, 12625, 12626, 12627, 12628, 12629, 12630, 12631,
             12632, 12633, 12634, 12635, 12636, 12637, 12638, 12639, 12640,
             12641, 12642, 12643 >>

\* '' g kk gs n nj nh d r rg rm rb rs rt rp rh m b bs s ss ng j ch k t p h
FINALS == << 0, 12593, 12594, 12595, 12596, 12597, 12598, 12599, 12601, 12602,
             12603, 12604, 12605, 12606, 12607, 12608, 12609, 12610, 12612,
             12613, 12614, 12615, 12616, 12618, 12619, 12620, 12621, 12622 >>

Range(s) == {s[n] : n \in 1..Len(s)}

\* array.indexOf(char): 0-based index of the first occurrence, -1 if absent
getIndex(char, array) ==
  IF \E n \in 1..Len(array) : array[n] = char
  THEN (CHOOSE n \in 1..Len(array) :
          array[n] = char /\ \A m \in 1..(n - 1) : array[m] # char) - 1
  ELSE -1

\* array[idx] || ''  (an out-of-range read is undefined, hence '')
elementOrEmpty(array, idx) ==
  IF idx >= 0 /\ idx < Len(array) THEN array[idx + 1] ELSE Empty

\* String.fromCharCode(codePoint): one UTF-16 code unit
fromCharCode(codePoint) == << codePoint % 65536 >>

(***************************************************************************)
(* Syllable codec                                                          *)
(***************************************************************************)
\* variant: the vowel stride is the number of non-empty finals
combineJamo_wrongStride(initial, vowel, final) ==
  LET initialIdx == getIndex(initial, INITIALS)
      vowelIdx   == getIndex(vowel, VOWELS)
      finalIdx   == IF final # Empty THEN getIndex(final, FINALS) ELSE 0
  IN  IF initialIdx = -1 \/ vowelIdx = -1
      THEN << >>
      ELSE fromCharCode(HANGUL_BASE + initialIdx * 588 + vowelIdx * 27 + finalIdx)

combineJamo(initial, vowel, final) ==
  LET initialIdx == getIndex(initial, INITIALS)
      vowelIdx   == getIndex(vowel, VOWELS)
      finalIdx   == IF final # Empty THEN getIndex(final, FINALS) ELSE 0
  IN  IF initialIdx = -1 \/ vowelIdx = -1
      THEN << >>
      ELSE fromCharCode(HANGUL_BASE + initialIdx * 588 + vowelIdx * 28 + finalIdx)

Null == [null |-> TRUE]

\* variant: the vowel index is not reduced modulo the initial stride
decomposeSyllable_noModulo(code) ==
  IF code < HANGUL_BASE \/ code > HANGUL_LAST
  THEN Null
  ELSE LET relativeCode == code - HANGUL_BASE
           initialIdx   == relativeCode \div 588
           vowelIdx     == relativeCode \div 28
           finalIdx     == relativeCode % 28
       IN  [ initial |-> elementOrEmpty(INITIALS, initialIdx),
             vowel   |-> elementOrEmpty(VOWELS, vowelIdx),
             final   |-> elementOrEmpty(FINALS, finalIdx) ]

\* variant: the first syllable of the block is rejected
decomposeSyllable_offByOne(code) ==
  IF code <= HANGUL_BASE \/ code > HANGUL_LAST
  THEN Null
  ELSE LET relativeCode == code - HANGUL_BASE
           initialIdx   == relativeCode \div 588
           vowelIdx     == (relativeCode % 588) \div 28
           finalIdx     == relativeCode % 28
       IN  [ initial |-> elementOrEmpty(INITIALS, initialIdx),
             vowel   |-> elementOrEmpty(VOWELS, vowelIdx),
             final   |-> elementOrEmpty(FINALS, finalIdx) ]

decomposeSyllable(code) ==
  IF code < HANGUL_BASE \/ code > HANGUL_LAST
  THEN Null
  ELSE LET relativeCode == code - HANGUL_BASE
           initialIdx   == relativeCode \div 588
           vowelIdx     == (relativeCode % 588) \div 28
           finalIdx     == relativeCode % 28
       IN  [ initial |-> elementOrEmpty(INITIALS, initialIdx),
             vowel   |-> elementOrEmpty(VOWELS, vowelIdx),
             final   |-> elementOrEmpty(FINALS, finalIdx) ]

(***************************************************************************)
(* Jamo classifier                                                         *)
(***************************************************************************)
\* the members of the three lists, for includes()
InitialSet == Range(INITIALS)

VowelSet == Range(VOWELS)

FinalSet == Range(FINALS)

isInitial(char) == char \in InitialSet

isVowel(char) == char \in VowelSet

isFinal(char) == char \in FinalSet /\ char # Empty

isSyllable(char) == char >= HANGUL_BASE /\ char <= HANGUL_LAST

(***************************************************************************)
(* Compound combiner tables: sets of <<first, second, compound>>           *)
(***************************************************************************)
combinations ==
  { <<12631, 12623, 12632>>, <<12631, 12624, 12633>>, <<12631, 12643, 12634>>,
    <<12636, 12627, 12637>>, <<12636, 12628, 12638>>, <<12636, 12643, 12639>>,
    <<12641, 12643, 12642>> }

\* variant: a compound final (rg) combines once more (rg + s = rs)
compoundFinals_chained ==
  { <<12593, 12613, 12595>>,
    <<12596, 12616, 12597>>, <<12596, 12622, 12598>>,
    <<12601, 12593, 12602>>, <<12601, 12609, 12603>>, <<12601, 12610, 12604>>,
    <<12601, 12613, 12605>>, <<12601, 12620, 12606>>, <<12601, 12621, 12607>>,
    <<12601, 12622, 12608>>,
    <<12610, 12613, 12612>>,
    <<12602, 12613, 12605>> }

compoundFinals ==
  { <<12593, 12613, 12595>>,
    <<12596, 12616, 12597>>, <<12596, 12622, 12598>>,
    <<12601, 12593, 12602>>, <<12601, 12609, 12603>>, <<12601, 12610, 12604>>,
    <<12601, 12613, 12605>>, <<12601, 12620, 12606>>, <<12601, 12621, 12607>>,
    <<12601, 12622, 12608>>,
    <<12610, 12613, 12612>> }

\* variant: a pair is looked up in either order
lookup_unordered(table, first, second) ==
  IF \E e \in table : {e[1], e[2]} = {first, second}
  THEN (CHOOSE e \in table : {e[1], e[2]} = {first, second})[3]
  ELSE Empty

\* table[first]?.[second] || null
lookup(table, first, second) ==
  IF \E e \in table : e[1] = first /\ e[2] = second
  THEN (CHOOSE e \in table : e[1] = first /\ e[2] = second)[3]
  ELSE Empty

combineVowels(vowel1, vowel2) == lookup(combinations, vowel1, vowel2)

getCompoundFinal(final1, final2) == lookup(compoundFinals, final1, final2)

(***************************************************************************)
(* String helpers                                                          *)
(***************************************************************************)
\* currentText.slice(0, -n)
sliceOff(currentText, n) ==
  IF Len(currentText) <= n THEN << >>
  ELSE SubSeq(currentText, 1, Len(currentText) - n)

lastOf(currentText) == currentText[Len(currentText)]

\* a jamo value used as a string: '' contributes nothing
str(char) == IF char = Empty THEN << >> ELSE << char >>

(***************************************************************************)
(* Composition transition: addJamo, branch by branch                       *)
(***************************************************************************)
\* variant: a vowel typed into the empty text is not kept
addToEmpty_dropsVowel(currentText, newJamo) ==
  IF isInitial(newJamo) THEN << newJamo >>
  ELSE currentText

\* text is empty
addToEmpty(currentText, newJamo) ==
  IF isInitial(newJamo) THEN << newJamo >>
  ELSE IF isVowel(newJamo) THEN << newJamo >>
  ELSE currentText

\* variant: the syllable is not sliced off before the two new ones are added
moveFinalToNewSyllable_noSlice(currentText, decomposed, newJamo) ==
  LET syllableWithoutFinal ==
        combineJamo(decomposed.initial, decomposed.vowel, Empty)
      newSyllable == combineJamo(decomposed.final, newJamo, Empty)
  IN  currentText \o syllableWithoutFinal \o newSyllable

\* syllable has a final, newJamo is a vowel: the final becomes the initial
\* of a new syllable
moveFinalToNewSyllable(currentText, decomposed, newJamo) ==
  LET syllableWithoutFinal ==
        combineJamo(decomposed.initial, decomposed.vowel, Empty)
      newSyllable == combineJamo(decomposed.final, newJamo, Empty)
  IN  sliceOff(currentText, 1) \o syllableWithoutFinal \o newSyllable

\* variant: a key that can be an initial starts a new syllable before the
\* compound final is tried
addFinalToFinal_initialFirst(currentText, decomposed, newJamo) ==
  LET compoundFinal == getCompoundFinal(decomposed.final, newJamo)
  IN  IF isInitial(newJamo)
      THEN Append(currentText, newJamo)
      ELSE IF compoundFinal # Empty
      THEN sliceOff(currentText, 1)
             \o combineJamo(decomposed.initial, decomposed.vowel, compoundFinal)
      ELSE sliceOff(currentText, 1)
             \o combineJamo(decomposed.initial, decomposed.vowel, newJamo)

\* syllable has a final, newJamo is a final
addFinalToFinal(currentText, decomposed, newJamo) ==
  LET compoundFinal == getCompoundFinal(decomposed.final, newJamo)
  IN  IF compoundFinal # Empty
      THEN sliceOff(currentText, 1)
             \o combineJamo(decomposed.initial, decomposed.vowel, compoundFinal)
      ELSE IF isInitial(newJamo)
      THEN Append(currentText, newJamo)
      ELSE sliceOff(currentText, 1)
             \o combineJamo(decomposed.initial, decomposed.vowel, newJamo)

\* variant: vowels are combined in either order
addVowelToSyllable_symmetric(currentText, decomposed, newJamo) ==
  LET compoundVowel ==
        IF combineVowels(decomposed.vowel, newJamo) # Empty
        THEN combineVowels(decomposed.vowel, newJamo)
        ELSE combineVowels(newJamo, decomposed.vowel)
  IN  IF compoundVowel # Empty
      THEN sliceOff(currentText, 1)
             \o combineJamo(decomposed.initial, compoundVowel, Empty)
      ELSE Append(currentText, newJamo)

\* syllable without a final (or fall-through), newJamo is a vowel
addVowelToSyllable(currentText, decomposed, newJamo) ==
  LET compoundVowel == combineVowels(decomposed.vowel, newJamo)
  IN  IF compoundVowel # Empty
      THEN sliceOff(currentText, 1)
             \o combineJamo(decomposed.initial, compoundVowel, Empty)
      ELSE Append(currentText, newJamo)

\* variant: a final that can be an initial starts a new syllable
attachFinal_initialStartsNew(currentText, decomposed, newJamo) ==
  IF isInitial(newJamo)
  THEN Append(currentText, newJamo)
  ELSE sliceOff(currentText, 1)
         \o combineJamo(decomposed.initial, decomposed.vowel, newJamo)

\* syllable without a final, newJamo is a final
attachFinal(currentText, decomposed, newJamo) ==
  sliceOff(currentText, 1)
    \o combineJamo(decomposed.initial, decomposed.vowel, newJamo)

\* variant: every consonant key is attached to a syllable without a final
addToSyllable_attachesInitial(currentText, newJamo) ==
  LET decomposed == decomposeSyllable(lastOf(currentText))
  IN  IF decomposed = Null THEN Append(currentText, newJamo)
      ELSE IF decomposed.final # Empty /\ isVowel(newJamo)
      THEN moveFinalToNewSyllable(currentText, decomposed, newJamo)
      ELSE IF decomposed.final # Empty /\ isFinal(newJamo)
      THEN addFinalToFinal(currentText, decomposed, newJamo)
      ELSE IF decomposed.final # Empty /\ isInitial(newJamo)
      THEN Append(currentText, newJamo)
      ELSE IF isVowel(newJamo)
      THEN addVowelToSyllable(currentText, decomposed, newJamo)
      ELSE IF isFinal(newJamo) \/ isInitial(newJamo)
      THEN attachFinal(currentText, decomposed, newJamo)
      ELSE Append(currentText, newJamo)

\* last character is a complete syllable
addToSyllable(currentText, newJamo) ==
  LET decomposed == decomposeSyllable(lastOf(currentText))
  IN  IF decomposed = Null THEN Append(currentText, newJamo)
      ELSE IF decomposed.final # Empty /\ isVowel(newJamo)
      THEN moveFinalToNewSyllable(currentText, decomposed, newJamo)
      ELSE IF decomposed.final # Empty /\ isFinal(newJamo)
      THEN addFinalToFinal(currentText, decomposed, newJamo)
      ELSE IF decomposed.final # Empty /\ isInitial(newJamo)
      THEN Append(currentText, newJamo)
      ELSE IF isVowel(newJamo)
      THEN addVowelToSyllable(currentText, decomposed, newJamo)
      ELSE IF isFinal(newJamo)
      THEN attachFinal(currentText, decomposed, newJamo)
      ELSE Append(currentText, newJamo)

\* variant: the syllable before the initial is re-rendered without its final
combineInitialVowel_dropsFinal(currentText, newJamo) ==
  LET lastChar == lastOf(currentText)
      secondLastChar == currentText[Len(currentText) - 1]
      decomposed == decomposeSyllable(secondLastChar)
  IN  IF /\ Len(currentText) >= 2
         /\ isSyllable(secondLastChar)
         /\ decomposed # Null
         /\ decomposed.final # Empty
      THEN sliceOff(currentText, 2)
             \o combineJamo(decomposed.initial, decomposed.vowel, Empty)
             \o combineJamo(lastChar, newJamo, Empty)
      ELSE sliceOff(currentText, 1) \o combineJamo(lastChar, newJamo, Empty)

\* last character is an initial consonant, newJamo is a vowel
combineInitialVowel(currentText, newJamo) ==
  LET lastChar == lastOf(currentText)
      secondLastChar == currentText[Len(currentText) - 1]
      decomposed == decomposeSyllable(secondLastChar)
  IN  IF /\ Len(currentText) >= 2
         /\ isSyllable(secondLastChar)
         /\ decomposed # Null
         /\ decomposed.final # Empty
      THEN sliceOff(currentText, 2)
             \o combineJamo(decomposed.initial, decomposed.vowel, decomposed.final)
             \o combineJamo(lastChar, newJamo, Empty)
      ELSE sliceOff(currentText, 1) \o combineJamo(lastChar, newJamo, Empty)

\* variant: replacing the initial slices two characters off
addToInitial_slicesTwo(currentText, newJamo) ==
  IF isVowel(newJamo) THEN combineInitialVowel(currentText, newJamo)
  ELSE IF isInitial(newJamo) THEN Append(sliceOff(currentText, 2), newJamo)
  ELSE Append(currentText, newJamo)

\* variant: a second initial is appended instead of replacing the first
addToInitial_appends(currentText, newJamo) ==
  IF isVowel(newJamo) THEN combineInitialVowel(currentText, newJamo)
  ELSE Append(currentText, newJamo)

\* last character is an initial consonant
addToInitial(currentText, newJamo) ==
  IF isVowel(newJamo) THEN combineInitialVowel(currentText, newJamo)
  ELSE IF isInitial(newJamo) THEN Append(sliceOff(currentText, 1), newJamo)
  ELSE Append(currentText, newJamo)

\* variant: no pass-through of non-jamo keys before the branches
addJamo_noPassThrough(currentText, newJamo) ==
  IF Len(currentText) = 0
  THEN addToEmpty(currentText, newJamo)
  ELSE IF isSyllable(lastOf(currentText))
  THEN addToSyllable(currentText, newJamo)
  ELSE IF isInitial(lastOf(currentText))
  THEN addToInitial(currentText, newJamo)
  ELSE Append(currentText, newJamo)

\* variant: two standalone vowels are merged into their compound
addJamo_mergesVowels(currentText, newJamo) ==
  IF ~isInitial(newJamo) /\ ~isVowel(newJamo) /\ ~isFinal(newJamo)
  THEN Append(currentText, newJamo)
  ELSE IF Len(currentText) = 0
  THEN addToEmpty(currentText, newJamo)
  ELSE IF isSyllable(lastOf(currentText))
  THEN addToSyllable(currentText, newJamo)
  ELSE IF isInitial(lastOf(currentText))
  THEN addToInitial(currentText, newJamo)
  ELSE IF isVowel(lastOf(currentText))
  THEN IF combineVowels(lastOf(currentText), newJamo) # Empty
       THEN Append(sliceOff(currentText, 1),
                   combineVowels(lastOf(currentText), newJamo))
       ELSE Append(currentText, newJamo)
  ELSE IF isFinal(lastOf(currentText)) /\ (isVowel(newJamo) \/ isInitial(newJamo))
  THEN Append(currentText, newJamo)
  ELSE Append(currentText, newJamo)

\* variant: a standalone final composes with a following vowel as an
\* initial would
addJamo_composesAfterFinal(currentText, newJamo) ==
  IF ~isInitial(newJamo) /\ ~isVowel(newJamo) /\ ~isFinal(newJamo)
  THEN Append(currentText, newJamo)
  ELSE IF Len(currentText) = 0
  THEN addToEmpty(currentText, newJamo)
  ELSE IF isSyllable(lastOf(currentText))
  THEN addToSyllable(currentText, newJamo)
  ELSE IF isInitial(lastOf(currentText))
  THEN addToInitial(currentText, newJamo)
  ELSE IF isVowel(lastOf(currentText))
  THEN Append(currentText, newJamo)
  ELSE IF isFinal(lastOf(currentText)) /\ isVowel(newJamo)
  THEN sliceOff(currentText, 1) \o combineJamo(lastOf(currentText), newJamo, Empty)
  ELSE Append(currentText, newJamo)

addJamo(currentText, newJamo) ==
  IF ~isInitial(newJamo) /\ ~isVowel(newJamo) /\ ~isFinal(newJamo)
  THEN Append(currentText, newJamo)
  ELSE IF Len(currentText) = 0
  THEN addToEmpty(currentText, newJamo)
  ELSE IF isSyllable(lastOf(currentText))
  THEN addToSyllable(currentText, newJamo)
  ELSE IF isInitial(lastOf(currentText))
  THEN addToInitial(currentText, newJamo)
  ELSE IF isVowel(lastOf(currentText))
  THEN Append(currentText, newJamo)
  ELSE IF isFinal(lastOf(currentText)) /\ (isVowel(newJamo) \/ isInitial(newJamo))
  THEN Append(currentText, newJamo)
  ELSE Append(currentText, newJamo)

(***************************************************************************)
(* Backspace transition                                                    *)
(***************************************************************************)
\* variant: a syllable without a final is removed whole
handleBackspace_dropsSyllable(currentText) ==
  IF Len(currentText) = 0 THEN currentText
  ELSE LET lastChar == lastOf(currentText)
           decomposed == decomposeSyllable(lastChar)
       IN  IF isSyllable(lastChar) /\ decomposed # Null
           THEN IF decomposed.final # Empty
                THEN sliceOff(currentText, 1)
                       \o combineJamo(decomposed.initial, decomposed.vowel, Empty)
                ELSE IF decomposed.vowel # Empty
                THEN sliceOff(currentText, 1)
                ELSE sliceOff(currentText, 1)
           ELSE sliceOff(currentText, 1)

\* variant: a syllable with a final is removed whole
handleBackspace_dropsWithFinal(currentText) ==
  IF Len(currentText) = 0 THEN currentText
  ELSE LET lastChar == lastOf(currentText)
           decomposed == decomposeSyllable(lastChar)
       IN  IF isSyllable(lastChar) /\ decomposed # Null
           THEN IF decomposed.final # Empty
                THEN sliceOff(currentText, 1)
                ELSE IF decomposed.vowel # Empty
                THEN sliceOff(currentText, 1)
                       \o str(decomposed.initial) \o str(decomposed.vowel)
                ELSE sliceOff(currentText, 1)
           ELSE sliceOff(currentText, 1)

\* variant: the removed final is left behind as a bare jamo
handleBackspace_splitsFinal(currentText) ==
  IF Len(currentText) = 0 THEN currentText
  ELSE LET lastChar == lastOf(currentText)
           decomposed == decomposeSyllable(lastChar)
       IN  IF isSyllable(lastChar) /\ decomposed # Null
           THEN IF decomposed.final # Empty
                THEN sliceOff(currentText, 1)
                       \o combineJamo(decomposed.initial, decomposed.vowel, Empty)
                       \o str(decomposed.final)
                ELSE IF decomposed.vowel # Empty
                THEN sliceOff(currentText, 1)
                       \o str(decomposed.initial) \o str(decomposed.vowel)
                ELSE sliceOff(currentText, 1)
           ELSE sliceOff(currentText, 1)

handleBackspace(currentText) ==
  IF Len(currentText) = 0 THEN currentText
  ELSE LET lastChar == lastOf(currentText)
           decomposed == decomposeSyllable(lastChar)
       IN  IF isSyllable(lastChar) /\ decomposed # Null
           THEN IF decomposed.final # Empty
                THEN sliceOff(currentText, 1)
                       \o combineJamo(decomposed.initial, decomposed.vowel, Empty)
                ELSE IF decomposed.vowel # Empty
                THEN sliceOff(currentText, 1)
                       \o str(decomposed.initial) \o str(decomposed.vowel)
                ELSE sliceOff(currentText, 1)
           ELSE sliceOff(currentText, 1)

(***************************************************************************)
(* Inputs                                                                  *)
(***************************************************************************)
MaxPrefixLen == 1
MaxSyllables == 2

ch_g  == INITIALS[1]
ch_n  == INITIALS[3]
ch_b  == INITIALS[8]
ch_pp == INITIALS[9]
ch_s  == INITIALS[10]
ch_h  == INITIALS[19]
ch_a  == VOWELS[1]
ch_u  == VOWELS[14]
ch_wo == VOWELS[15]
ch_rg == FINALS[10]
ch_bs == FINALS[19]

syl(initial, vowel, final) == combineJamo(initial, vowel, final)[1]

Jamo == Range(INITIALS) \cup Range(VOWELS) \cup (Range(FINALS) \ {Empty})

\* ' ', 'a', the code units just outside the syllable block, and U+1100
OtherChars == {32, 97, HANGUL_BASE - 1, HANGUL_LAST + 1, 4352}

Keys == Jamo \cup OtherChars

SampleInitials == {ch_g, ch_h}

Syllables ==
  {syl(i, v, f) : i \in SampleInitials, v \in Range(VOWELS), f \in Range(FINALS)}

LastChars == Syllables \cup Jamo \cup OtherChars

PrefixChars == {syl(ch_g, ch_a, ch_bs), syl(ch_g, ch_a, Empty), ch_n}

SeqsUpTo(S, n) == UNION {[1..m -> S] : m \in 0..n}

InputBuffers ==
  {<< >>} \cup {Append(p, c) : p \in SeqsUpTo(PrefixChars, MaxPrefixLen), c \in LastChars}

(***************************************************************************)
(* Word database (services/database.ts)                                    *)
(***************************************************************************)
DB_VERSION == 3

\* SQL NULL, and the value of a field whose column the table does not have
NULL == "NULL"

NoColumn == "no column"

CommonWordCount == 12

Min(a, b) == IF a <= b THEN a ELSE b

\* the bundled seed data (data/common_words.json, data/letters.json), with
\* emoji and imageUrl already defaulted to ''
commonWordsData ==
  [n \in 1..CommonWordCount |->
     [korean |-> << syl(ch_g, ch_a, Empty) >>, english |-> ToString(n),
      emoji |-> IF n % 2 = 1 THEN "emoji" ELSE "", imageUrl |-> ""]]

lettersData ==
  << [korean |-> << ch_g >>, english |-> "g", emoji |-> "", imageUrl |-> ""] >>

\* the database file before it has ever been opened
NoDatabase ==
  [versionTable |-> FALSE, versions |-> {}, wordsTable |-> FALSE,
   columns |-> {}, words |-> << >>, seq |-> 0]

\* the columns of words that migrations add
AllColumns == {"emoji", "imageUrl", "vocabulary_set"}

\* CREATE TABLE IF NOT EXISTS db_version
createVersionTable(d) == [d EXCEPT !.versionTable = TRUE]

\* SELECT version FROM db_version LIMIT 1, 0 without a row
getCurrentVersion(d) ==
  IF ~d.versionTable \/ d.versions = {} THEN 0
  ELSE CHOOSE v \in d.versions : \A w \in d.versions : v <= w

\* variant: the old version row is not deleted
setVersion_keepsOld(d, version) == [d EXCEPT !.versions = d.versions \cup {version}]

\* DELETE FROM db_version; INSERT INTO db_version
setVersion(d, version) == [d EXCEPT !.versions = {version}]

\* CREATE TABLE IF NOT EXISTS words, with the latest schema
createTables(d) ==
  IF d.wordsTable THEN d
  ELSE [d EXCEPT !.wordsTable = TRUE, !.columns = AllColumns, !.words = << >>]

\* INSERT INTO words (korean, english, emoji, imageUrl, vocabulary_set)
insertWord(d, word, vocabularySet) ==
  [d EXCEPT !.words = Append(d.words,
                             [id |-> d.seq + 1, korean |-> word.korean,
                              english |-> word.english, emoji |-> word.emoji,
                              imageUrl |-> word.imageUrl,
                              vocabulary_set |-> vocabularySet]),
            !.seq = d.seq + 1]

RECURSIVE insertAll(_, _, _)
insertAll(d, data, vocabularySet) ==
  IF data = << >> THEN d
  ELSE insertAll(insertWord(d, Head(data), vocabularySet), Tail(data), vocabularySet)

\* SELECT COUNT(*) FROM words WHERE vocabulary_set = ?
countSet(d, vocabularySet) ==
  Cardinality({n \in DOMAIN d.words : d.words[n].vocabulary_set = vocabularySet})

isUnset(vocabularySet) == vocabularySet \in {NULL, "", "undefined"}

\* UPDATE words SET vocabulary_set = "common-words" WHERE vocabulary_set IS
\* NULL OR vocabulary_set = "" OR vocabulary_set = "undefined"
fixVocabularySet(d) ==
  [d EXCEPT !.words =
     [n \in DOMAIN d.words |->
        IF isUnset(d.words[n].vocabulary_set)
        THEN [d.words[n] EXCEPT !.vocabulary_set = "common-words"]
        ELSE d.words[n]]]

\* migration 1 to 2: add the emoji and imageUrl columns, then UPDATE the
\* rows of the bundled common words
migrateToVersion2(d) ==
  LET added(row) ==
        [row EXCEPT !.emoji = IF "emoji" \in d.columns THEN row.emoji ELSE NULL,
                    !.imageUrl = IF "imageUrl" \in d.columns THEN row.imageUrl
                                 ELSE NULL]
      matches(row) ==
        {n \in DOMAIN commonWordsData :
           /\ commonWordsData[n].korean = row.korean
           /\ commonWordsData[n].english = row.english}
      lastMatch(row) == CHOOSE n \in matches(row) : \A m \in matches(row) : m <= n
      updated(row) ==
        IF matches(row) = {} THEN added(row)
        ELSE [added(row) EXCEPT !.emoji = commonWordsData[lastMatch(row)].emoji,
                                !.imageUrl = commonWordsData[lastMatch(row)].imageUrl]
  IN  setVersion([d EXCEPT !.columns = d.columns \cup {"emoji", "imageUrl"},
                           !.words = [n \in DOMAIN d.words |-> updated(d.words[n])]],
                 2)

\* migration 2 to 3: add the vocabulary_set column, default the existing
\* rows to common-words, seed the letters when there are none
migrateToVersion3(d) ==
  LET added(row) ==
        IF "vocabulary_set" \in d.columns THEN row
        ELSE [row EXCEPT !.vocabulary_set = "common-words"]
      withColumn ==
        [d EXCEPT !.columns = d.columns \cup {"vocabulary_set"},
                  !.words = [n \in DOMAIN d.words |-> added(d.words[n])]]
      fixed == fixVocabularySet(withColumn)
      seeded == IF countSet(fixed, "letters") = 0
                THEN insertAll(fixed, lettersData, "letters")
                ELSE fixed
  IN  setVersion(seeded, 3)

migrateDatabase(d) ==
  LET currentVersion == getCurrentVersion(d)
      migrated2 == IF currentVersion < 2 THEN migrateToVersion2(d) ELSE d
  IN  IF currentVersion >= DB_VERSION THEN d
      ELSE IF currentVersion < 3 THEN migrateToVersion3(migrated2)
      ELSE migrated2

seedDatabase(d) ==
  insertAll(insertAll(d, commonWordsData, "common-words"), lettersData, "letters")

\* variant: the bundled words are seeded whether or not the table is empty
seedIfEmpty_alwaysSeeds(d) == seedDatabase(d)

\* the counts are all read before the first change
seedIfEmpty(d) ==
  LET count == Len(d.words)
      commonCount == countSet(d, "common-words")
      lettersCountValue == countSet(d, "letters")
      nullCountValue ==
        Cardinality({n \in DOMAIN d.words : isUnset(d.words[n].vocabulary_set)})
      fixed == IF nullCountValue > 0 THEN fixVocabularySet(d) ELSE d
      withCommon == IF commonCount = 0
                    THEN insertAll(fixed, commonWordsData, "common-words")
                    ELSE fixed
  IN  IF count = 0 THEN seedDatabase(d)
      ELSE IF lettersCountValue = 0
      THEN insertAll(withCommon, lettersData, "letters")
      ELSE withCommon

initializeDatabase(d) ==
  seedIfEmpty(migrateDatabase(createTables(createVersionTable(d))))

\* DELETE FROM words; DELETE FROM db_version; setVersion(0); migrate; seed
resetDatabase(d) ==
  seedDatabase(migrateDatabase(setVersion([d EXCEPT !.words = << >>,
                                                    !.versions = {}], 0)))

\* SELECT * FROM words WHERE vocabulary_set = ? ORDER BY id LIMIT ? OFFSET ?
getWordsBatch(d, limit, offset, vocabularySet) ==
  LET rows == SelectSeq(d.words, LAMBDA row : row.vocabulary_set = vocabularySet)
  IN  SubSeq(rows, offset + 1, Min(Len(rows), offset + limit))

\* the variables that only the sessions, the typing screen and the database
\* use, at rest
EngineOnly ==
  /\ typed = {}
  /\ currentWordIndex = 0
  /\ wordsBatch = << >>
  /\ pending = << >>
  /\ db = NoDatabase
  /\ dbBefore = NoDatabase
  /\ isShiftPressed = FALSE

(***************************************************************************)
(* Spec: one engine call on every input buffer                             *)
(***************************************************************************)
Init ==
  /\ text \in InputBuffers
  /\ prev = text
  /\ key = Empty
  /\ op = "input"
  /\ target = << >>
  /\ pos = 0
  /\ result = Null
  /\ EngineOnly

\* handleKeyPress: setText(prev => addJamo(prev, key))
KeyPress(k) ==
  /\ op = "input"
  /\ text' = addJamo(text, k)
  /\ prev' = text
  /\ key' = k
  /\ op' = "addJamo"
  /\ UNCHANGED <<target, pos, result>>
  /\ UNCHANGED <<typed, appVars, dbVars, isShiftPressed>>

\* handleBackspace: setText(prev => handleHangulBackspace(prev))
Backspace ==
  /\ op = "input"
  /\ text' = handleBackspace(text)
  /\ prev' = text
  /\ key' = Empty
  /\ op' = "handleBackspace"
  /\ UNCHANGED <<target, pos, result>>
  /\ UNCHANGED <<typed, appVars, dbVars, isShiftPressed>>

Next ==
  \/ \E k \in Keys : KeyPress(k)
  \/ Backspace

Spec == Init /\ [][Next]_vars

(***************************************************************************)
(* SpecType: typing a sequence of syllables key by key from the empty      *)
(* buffer                                                                  *)
(***************************************************************************)
\* the two component keys of a compound, as the combination tables define it
vowelKeys(vowel) ==
  IF \E e \in combinations : e[3] = vowel
  THEN LET e == CHOOSE e \in combinations : e[3] = vowel IN << e[1], e[2] >>
  ELSE << vowel >>

finalKeys(final) ==
  IF final = Empty THEN << >>
  ELSE IF \E e \in compoundFinals : e[3] = final
  THEN LET e == CHOOSE e \in compoundFinals : e[3] = final IN << e[1], e[2] >>
  ELSE << final >>

syllableKeys(syllable) ==
  LET d == decomposeSyllable(syllable)
  IN  << d.initial >> \o vowelKeys(d.vowel) \o finalKeys(d.final)

RECURSIVE keystrokes(_)
keystrokes(syllables) ==
  IF syllables = << >> THEN << >>
  ELSE syllableKeys(Head(syllables)) \o keystrokes(Tail(syllables))

TypeSyllables ==
  {syl(i, v, f) : i \in {ch_g, ch_s, ch_pp}, v \in {ch_a, ch_wo},
                  f \in {Empty, ch_b, ch_rg, FINALS[3]}}

Targets == UNION {[1..m -> TypeSyllables] : m \in 1..MaxSyllables}

InitType ==
  /\ text = << >>
  /\ prev = << >>
  /\ key = Empty
  /\ op = "typing"
  /\ target \in Targets
  /\ pos = 0
  /\ result = Null
  /\ EngineOnly

\* handleKeyPress with the next key of the target's keystrokes
TypeNext ==
  /\ op = "typing"
  /\ pos < Len(keystrokes(target))
  /\ text' = addJamo(text, keystrokes(target)[pos + 1])
  /\ prev' = text
  /\ key' = keystrokes(target)[pos + 1]
  /\ pos' = pos + 1
  /\ UNCHANGED <<op, target, result>>
  /\ UNCHANGED <<typed, appVars, dbVars, isShiftPressed>>

NextType == TypeNext

SpecType == InitType /\ [][NextType]_vars

(***************************************************************************)
(* SpecErase: backspace pressed again and again on an input buffer; target *)
(* is the buffer at the start and pos the number of presses so far         *)
(***************************************************************************)
InitErase ==
  /\ text \in InputBuffers
  /\ prev = text
  /\ key = Empty
  /\ op = "erasing"
  /\ target = text
  /\ pos = 0
  /\ result = Null
  /\ EngineOnly

\* handleBackspace: setText(prev => handleHangulBackspace(prev))
EraseStep ==
  /\ op = "erasing"
  /\ text # << >>
  /\ pos <= 4 * Len(target)
  /\ text' = handleBackspace(text)
  /\ prev' = text
  /\ pos' = pos + 1
  /\ UNCHANGED <<key, op, target, result>>
  /\ UNCHANGED <<typed, appVars, dbVars, isShiftPressed>>

NextErase == EraseStep

SpecErase == InitErase /\ [][NextErase]_vars

(***************************************************************************)
(* SpecCodec: the leaf functions on their own.  compose then decompose on  *)
(* a triple (target), decompose then compose on a code unit (text), and    *)
(* both table lookups on an ordered pair (target) and on its reverse.      *)
(***************************************************************************)
InitialArgs == Range(INITIALS) \cup {Empty, ch_a, FINALS[4], 97}

VowelArgs == Range(VOWELS) \cup {Empty, ch_g, 97}

FinalArgs == Range(FINALS) \cup {ch_pp, ch_a, 97}

Triples == InitialArgs \X VowelArgs \X FinalArgs

\* the whole syllable block, and code units outside it
CodeUnits ==
  (HANGUL_BASE..HANGUL_LAST) \cup Jamo \cup OtherChars \cup {1, 55296, 65535}

Pairs == Jamo \X Jamo

InitCodec ==
  /\ \/ op = "triple" /\ target \in Triples /\ text = << >>
     \/ op = "code" /\ target = << >> /\ \E c \in CodeUnits : text = << c >>
     \/ op = "pair" /\ target \in Pairs /\ text = << >>
  /\ prev = text
  /\ key = Empty
  /\ pos = 0
  /\ result = Null
  /\ EngineOnly

\* combineJamo(initial, vowel, final)
Compose ==
  /\ op = "triple"
  /\ text' = combineJamo(target[1], target[2], target[3])
  /\ op' = "composed"
  /\ UNCHANGED <<prev, key, target, pos, result>>
  /\ UNCHANGED <<typed, appVars, dbVars, isShiftPressed>>

\* decomposeSyllable(combineJamo(initial, vowel, final))
DecomposeComposed ==
  /\ op = "composed"
  /\ text # << >>
  /\ result' = decomposeSyllable(text[1])
  /\ op' = "roundtrip"
  /\ UNCHANGED <<text, prev, key, target, pos>>
  /\ UNCHANGED <<typed, appVars, dbVars, isShiftPressed>>

\* decomposeSyllable(syllable)
Decompose ==
  /\ op = "code"
  /\ result' = decomposeSyllable(text[1])
  /\ op' = "decomposed"
  /\ UNCHANGED <<text, prev, key, target, pos>>
  /\ UNCHANGED <<typed, appVars, dbVars, isShiftPressed>>

\* combineJamo(decomposed.initial, decomposed.vowel, decomposed.final)
Recompose ==
  /\ op = "decomposed"
  /\ result # Null
  /\ text' = combineJamo(result.initial, result.vowel, result.final)
  /\ prev' = text
  /\ op' = "recomposed"
  /\ UNCHANGED <<key, target, pos, result>>
  /\ UNCHANGED <<typed, appVars, dbVars, isShiftPressed>>

\* combineVowels(a, b) and combineVowels(b, a)
CombineVowels ==
  /\ op = "pair"
  /\ result' = [forward  |-> combineVowels(target[1], target[2]),
                backward |-> combineVowels(target[2], target[1])]
  /\ op' = "combineVowels"
  /\ UNCHANGED <<text, prev, key, target, pos>>
  /\ UNCHANGED <<typed, appVars, dbVars, isShiftPressed>>

\* getCompoundFinal(a, b) and getCompoundFinal(b, a)
CombineFinals ==
  /\ op = "pair"
  /\ result' = [forward  |-> getCompoundFinal(target[1], target[2]),
                backward |-> getCompoundFinal(target[2], target[1])]
  /\ op' = "getCompoundFinal"
  /\ UNCHANGED <<text, prev, key, target, pos>>
  /\ UNCHANGED <<typed, appVars, dbVars, isShiftPressed>>

NextCodec ==
  \/ Compose
  \/ DecomposeComposed
  \/ Decompose
  \/ Recompose
  \/ CombineVowels
  \/ CombineFinals

SpecCodec == InitCodec /\ [][NextCodec]_vars

(***************************************************************************)
(* SpecSession: a typing session from the empty buffer; typed is the set   *)
(* of characters passed as keys so far                                     *)
(***************************************************************************)
MaxLen == 2

\* keys of the base layout, and a double consonant of the shift layout
SessionKeys == {ch_g, ch_s, ch_pp, VOWELS[9], ch_a}

InitSession ==
  /\ text = << >>
  /\ prev = << >>
  /\ key = Empty
  /\ op = "session"
  /\ target = << >>
  /\ pos = 0
  /\ result = Null
  /\ EngineOnly

\* handleKeyPress: setText(prev => addJamo(prev, key))
SessionKey(k) ==
  /\ op = "session"
  /\ Len(addJamo(text, k)) <= MaxLen
  /\ text' = addJamo(text, k)
  /\ prev' = text
  /\ key' = k
  /\ typed' = typed \cup {k}
  /\ UNCHANGED isShiftPressed
  /\ UNCHANGED <<op, target, pos, result, appVars, dbVars>>

\* handleSpace: setText(prev => prev + ' ')
SessionSpace ==
  /\ op = "session"
  /\ Len(text) < MaxLen
  /\ text' = Append(text, 32)
  /\ prev' = text
  /\ key' = 32
  /\ typed' = typed \cup {32}
  /\ UNCHANGED isShiftPressed
  /\ UNCHANGED <<op, target, pos, result, appVars, dbVars>>

\* handleBackspace: setText(prev => handleHangulBackspace(prev))
SessionBackspace ==
  /\ op = "session"
  /\ Len(handleBackspace(text)) <= MaxLen
  /\ text' = handleBackspace(text)
  /\ prev' = text
  /\ key' = Empty
  /\ UNCHANGED isShiftPressed
  /\ UNCHANGED <<op, target, pos, result, typed, appVars, dbVars>>

NextSession ==
  \/ \E k \in SessionKeys : SessionKey(k)
  \/ SessionSpace
  \/ SessionBackspace

SpecSession == InitSession /\ [][NextSession]_vars

(***************************************************************************)
(* SpecApp: the typing screen.  A Skip or Next press at the end of the     *)
(* loaded words awaits loadNextBatch; pending holds, oldest first, the     *)
(* nextIndex and nextOffset captured by each press still awaiting.         *)
(***************************************************************************)
BATCH_SIZE == 10

MaxPending == 2

AppKeys == {ch_g, ch_a}

\* text.trim()
RECURSIVE trimStart(_)
trimStart(string) ==
  IF string # << >> /\ Head(string) \in {32, 10} THEN trimStart(Tail(string))
  ELSE string

RECURSIVE trimEnd(_)
trimEnd(string) ==
  IF string # << >> /\ lastOf(string) \in {32, 10} THEN trimEnd(sliceOff(string, 1))
  ELSE string

trim(string) == trimEnd(trimStart(string))

\* currentWord?.korean || ''
targetWord ==
  IF currentWordIndex < Len(wordsBatch) THEN wordsBatch[currentWordIndex + 1].korean
  ELSE << >>

isMatch == trim(text) = targetWord

InitApp ==
  /\ text = << >>
  /\ prev = << >>
  /\ key = Empty
  /\ op = "loading"
  /\ target = << >>
  /\ pos = 0
  /\ result = Null
  /\ EngineOnly

\* the effect run on mount: initializeDatabase, then the first batch
init ==
  /\ op = "loading"
  /\ LET initialized == initializeDatabase(db)
     IN  /\ db' = initialized
         /\ wordsBatch' = getWordsBatch(initialized, BATCH_SIZE, 0, "common-words")
  /\ op' = "init"
  /\ UNCHANGED isShiftPressed
  /\ UNCHANGED <<text, prev, key, target, pos, result, typed,
                 currentWordIndex, pending, dbBefore>>

\* handleKeyPress
handleKeyPress(k) ==
  /\ op # "loading"
  /\ Len(addJamo(text, k)) <= MaxLen
  /\ text' = addJamo(text, k)
  /\ prev' = text
  /\ op' = "handleKeyPress"
  /\ UNCHANGED isShiftPressed
  /\ UNCHANGED <<key, target, pos, result, typed, appVars, dbVars>>

\* handleBackspace
handleBackspaceKey ==
  /\ op # "loading"
  /\ Len(handleBackspace(text)) <= MaxLen
  /\ text' = handleBackspace(text)
  /\ prev' = text
  /\ op' = "handleBackspace"
  /\ UNCHANGED isShiftPressed
  /\ UNCHANGED <<key, target, pos, result, typed, appVars, dbVars>>

\* handleSpace
handleSpace ==
  /\ op # "loading"
  /\ Len(text) < MaxLen
  /\ text' = Append(text, 32)
  /\ prev' = text
  /\ op' = "handleSpace"
  /\ UNCHANGED isShiftPressed
  /\ UNCHANGED <<key, target, pos, result, typed, appVars, dbVars>>

\* variant: the index moves on and the typed text stays
handleSkip_keepsText ==
  /\ op # "loading"
  /\ LET nextIndex == currentWordIndex + 1
     IN  IF nextIndex >= Len(wordsBatch)
         THEN /\ Len(pending) < MaxPending
              /\ pending' = Append(pending, [nextIndex |-> nextIndex,
                                             nextOffset |-> Len(wordsBatch)])
              /\ UNCHANGED <<text, currentWordIndex>>
         ELSE /\ currentWordIndex' = nextIndex
              /\ UNCHANGED <<text, pending>>
  /\ prev' = text
  /\ op' = "handleSkip"
  /\ UNCHANGED isShiftPressed
  /\ UNCHANGED <<key, target, pos, result, typed, wordsBatch, dbVars>>

\* handleSkip, up to its await or to its end
handleSkip ==
  /\ op # "loading"
  /\ LET nextIndex == currentWordIndex + 1
     IN  IF nextIndex >= Len(wordsBatch)
         THEN /\ Len(pending) < MaxPending
              /\ pending' = Append(pending, [nextIndex |-> nextIndex,
                                             nextOffset |-> Len(wordsBatch)])
              /\ UNCHANGED <<text, currentWordIndex>>
         ELSE /\ currentWordIndex' = nextIndex
              /\ text' = << >>
              /\ UNCHANGED pending
  /\ prev' = text
  /\ op' = "handleSkip"
  /\ UNCHANGED isShiftPressed
  /\ UNCHANGED <<key, target, pos, result, typed, wordsBatch, dbVars>>

\* handleNext, up to its await or to its end; the button is there on a match
handleNext ==
  /\ op # "loading"
  /\ isMatch
  /\ LET nextIndex == currentWordIndex + 1
     IN  IF nextIndex >= Len(wordsBatch)
         THEN /\ Len(pending) < MaxPending
              /\ pending' = Append(pending, [nextIndex |-> nextIndex,
                                             nextOffset |-> Len(wordsBatch)])
              /\ UNCHANGED <<text, currentWordIndex>>
         ELSE /\ currentWordIndex' = nextIndex
              /\ text' = << >>
              /\ UNCHANGED pending
  /\ prev' = text
  /\ op' = "handleNext"
  /\ UNCHANGED isShiftPressed
  /\ UNCHANGED <<key, target, pos, result, typed, wordsBatch, dbVars>>

\* the rest of handleSkip or handleNext once loadNextBatch has resolved
loadNextBatchResolved ==
  /\ pending # << >>
  /\ LET nextWords == getWordsBatch(db, BATCH_SIZE, Head(pending).nextOffset,
                                    "common-words")
     IN  IF Len(nextWords) > 0
         THEN /\ wordsBatch' = wordsBatch \o nextWords
              /\ currentWordIndex' = Head(pending).nextIndex
              /\ text' = << >>
              /\ op' = "loaded"
         ELSE /\ UNCHANGED <<wordsBatch, currentWordIndex, text>>
              /\ op' = "no more words"
  /\ pending' = Tail(pending)
  /\ prev' = text
  /\ UNCHANGED isShiftPressed
  /\ UNCHANGED <<key, target, pos, result, typed, dbVars>>

NextApp ==
  \/ init
  \/ \E k \in AppKeys : handleKeyPress(k)
  \/ handleBackspaceKey
  \/ handleSpace
  \/ handleSkip
  \/ handleNext
  \/ loadNextBatchResolved

SpecApp == InitApp /\ [][NextApp]_vars

(***************************************************************************)
(* SpecDb: initializeDatabase run again and again on a database file left  *)
(* by any version of the application, and resetDatabase in between; pos    *)
(* counts the runs of initializeDatabase                                   *)
(***************************************************************************)
MaxRuns == 2

MaxStoredWords == 2

\* words a stored database may hold: bundled ones, and one no longer bundled
storedWords ==
  {commonWordsData[1], commonWordsData[2], lettersData[1],
   [korean |-> << ch_n >>, english |-> "old", emoji |-> "", imageUrl |-> ""]}

Schemas == {{}, {"emoji", "imageUrl"}, AllColumns}

\* the versions a database with these columns may record; 0 is no row
versionsFor(columns) ==
  IF columns = AllColumns THEN 0..3
  ELSE IF columns = {} THEN 0..1
  ELSE 0..2

StoredRows(columns) ==
  {[korean |-> w.korean, english |-> w.english,
    emoji |-> IF "emoji" \in columns THEN w.emoji ELSE NoColumn,
    imageUrl |-> IF "imageUrl" \in columns THEN w.imageUrl ELSE NoColumn,
    vocabulary_set |-> v] :
     w \in storedWords,
     v \in IF "vocabulary_set" \in columns THEN {"common-words", "letters", NULL}
           ELSE {NoColumn}}

database(versionTable, version, columns, rows) ==
  [versionTable |-> versionTable,
   versions |-> IF version = 0 THEN {} ELSE {version},
   wordsTable |-> TRUE,
   columns |-> columns,
   words |-> [n \in DOMAIN rows |-> [id |-> n] @@ rows[n]],
   seq |-> Len(rows)]

DatabasesWith(columns) ==
  {database(a[1], a[2], columns, a[3]) :
     a \in {b \in BOOLEAN \X versionsFor(columns)
                    \X SeqsUpTo(StoredRows(columns), MaxStoredWords) :
              b[1] \/ b[2] = 0}}

\* no file, or a file with the schema of version 1, 2 or 3, a migration
\* possibly left half-way, with or without a version row
StartingDatabases == {NoDatabase} \cup UNION {DatabasesWith(c) : c \in Schemas}

InitDb ==
  /\ text = << >>
  /\ prev = << >>
  /\ key = Empty
  /\ op = "database"
  /\ target = << >>
  /\ pos = 0
  /\ result = Null
  /\ typed = {}
  /\ currentWordIndex = 0
  /\ wordsBatch = << >>
  /\ pending = << >>
  /\ db \in StartingDatabases
  /\ dbBefore = db
  /\ isShiftPressed = FALSE

InitializeDatabase ==
  /\ op \in {"database", "resetDatabase"}
  /\ pos < MaxRuns
  /\ db' = initializeDatabase(db)
  /\ dbBefore' = db
  /\ pos' = pos + 1
  /\ op' = "database"
  /\ UNCHANGED isShiftPressed
  /\ UNCHANGED <<text, prev, key, target, result, typed, appVars>>

\* resetDatabase, which needs the database opened by initializeDatabase
ResetDatabase ==
  /\ op = "database"
  /\ pos >= 1
  /\ db' = resetDatabase(db)
  /\ dbBefore' = db
  /\ op' = "resetDatabase"
  /\ UNCHANGED isShiftPressed
  /\ UNCHANGED <<text, prev, key, target, pos, result, typed, appVars>>

NextDb ==
  \/ InitializeDatabase
  \/ ResetDatabase

SpecDb == InitDb /\ [][NextDb]_vars

(***************************************************************************)
(* SpecKeyboard: presses on the keys of the virtual keyboard               *)
(* (components/KoreanKeyboard.tsx) mounted in the typing screen; target is *)
(* the <<row, column>> of the character key pressed last, key the          *)
(* character it emitted, pos the number of presses                         *)
(***************************************************************************)
MaxPresses == 2

\* b j d g s yo yeo ya ae e / m n ng r h o eo a i / k t ch p yu u eu
BASE_KEYBOARD_LAYOUT ==
  << << INITIALS[8], INITIALS[13], INITIALS[4], INITIALS[1], INITIALS[10],
        VOWELS[13], VOWELS[7], VOWELS[3], VOWELS[2], VOWELS[6] >>,
     << INITIALS[7], INITIALS[3], INITIALS[12], INITIALS[6], INITIALS[19],
        VOWELS[9], VOWELS[5], VOWELS[1], VOWELS[21] >>,
     << INITIALS[16], INITIALS[17], INITIALS[15], INITIALS[18],
        VOWELS[18], VOWELS[14], VOWELS[19] >> >>

\* pp jj tt kk ss ye yae ya wa wae / m n ng r h wo we wi ui / k t ch p yu u eu
SHIFT_KEYBOARD_LAYOUT ==
  << << INITIALS[9], INITIALS[14], INITIALS[5], INITIALS[2], INITIALS[11],
        VOWELS[8], VOWELS[4], VOWELS[3], VOWELS[10], VOWELS[11] >>,
     << INITIALS[7], INITIALS[3], INITIALS[12], INITIALS[6], INITIALS[19],
        VOWELS[15], VOWELS[16], VOWELS[17], VOWELS[20] >>,
     << INITIALS[16], INITIALS[17], INITIALS[15], INITIALS[18],
        VOWELS[18], VOWELS[14], VOWELS[19] >> >>

currentLayout ==
  IF isShiftPressed THEN SHIFT_KEYBOARD_LAYOUT ELSE BASE_KEYBOARD_LAYOUT

InitKeyboard ==
  /\ text = << >>
  /\ prev = << >>
  /\ key = Empty
  /\ op = "mounted"
  /\ target = << >>
  /\ pos = 0
  /\ result = Null
  /\ EngineOnly

\* the shift key: handleShift
handleShift ==
  /\ pos < MaxPresses
  /\ isShiftPressed' = ~isShiftPressed
  /\ pos' = pos + 1
  /\ op' = "shift"
  /\ UNCHANGED <<text, prev, key, target, result, typed, appVars, dbVars>>

\* variant: a character key leaves the shift state as it is
onPressKey_keepsShift(row, col) ==
  /\ pos < MaxPresses
  /\ key' = currentLayout[row][col]
  /\ text' = addJamo(text, currentLayout[row][col])
  /\ prev' = text
  /\ target' = <<row, col>>
  /\ pos' = pos + 1
  /\ op' = "key"
  /\ UNCHANGED <<isShiftPressed, result, typed, appVars, dbVars>>

\* a character key: the rendered key goes to onKeyPress (the typing screen's
\* handleKeyPress), then shift is released
onPressKey(row, col) ==
  /\ pos < MaxPresses
  /\ key' = currentLayout[row][col]
  /\ text' = addJamo(text, currentLayout[row][col])
  /\ prev' = text
  /\ target' = <<row, col>>
  /\ isShiftPressed' = IF isShiftPressed THEN FALSE ELSE isShiftPressed
  /\ pos' = pos + 1
  /\ op' = "key"
  /\ UNCHANGED <<result, typed, appVars, dbVars>>

\* the backspace key: onBackspace (the typing screen's handleBackspace)
onPressBackspace ==
  /\ pos < MaxPresses
  /\ text' = handleBackspace(text)
  /\ prev' = text
  /\ pos' = pos + 1
  /\ op' = "backspace"
  /\ UNCHANGED <<key, target, result, typed, appVars, dbVars, isShiftPressed>>

\* the space key: onSpace (the typing screen's handleSpace)
onPressSpace ==
  /\ pos < MaxPresses
  /\ text' = Append(text, 32)
  /\ prev' = text
  /\ pos' = pos + 1
  /\ op' = "space"
  /\ UNCHANGED <<key, target, result, typed, appVars, dbVars, isShiftPressed>>

\* the enter key returns before any handler
onPressEnter ==
  /\ pos < MaxPresses
  /\ pos' = pos + 1
  /\ op' = "enter"
  /\ UNCHANGED <<text, prev, key, target, result, typed, appVars, dbVars,
                 isShiftPressed>>

NextKeyboard ==
  \/ handleShift
  \/ \E row \in DOMAIN currentLayout :
       \E col \in DOMAIN currentLayout[row] : onPressKey(row, col)
  \/ onPressBackspace
  \/ onPressSpace
  \/ onPressEnter

SpecKeyboard == InitKeyboard /\ [][NextKeyboard]_vars

(***************************************************************************)
(* Claims                                                                  *)
(***************************************************************************)
\* the last call was addJamo on a buffer ending in a complete syllable
AfterKeyOnSyllable ==
  /\ op = "addJamo"
  /\ Len(prev) > 0
  /\ isSyllable(lastOf(prev))

prevSyllable == decomposeSyllable(lastOf(prev))

prefix == sliceOff(prev, 1)

\* C1: once all the 2-set keystrokes of a sequence of syllables have been
\* fed to addJamo from the empty buffer, the buffer is exactly that sequence
\* of syllables.
C1_TypedSyllables ==
  (op = "typing" /\ pos = Len(keystrokes(target))) => text = target

\* C2: a vowel key on a buffer ending in a syllable with a final (simple or
\* compound) yields the prefix, the syllable without its final, and one new
\* complete syllable whose initial is the old final and whose vowel is the
\* key; the result is one character longer than the input.
C2_DecomposeAndRestart ==
  (AfterKeyOnSyllable /\ prevSyllable.final # Empty /\ isVowel(key)) =>
    /\ Len(text) = Len(prev) + 1
    /\ sliceOff(text, 1) =
         prefix \o combineJamo(prevSyllable.initial, prevSyllable.vowel, Empty)
    /\ isSyllable(lastOf(text))
    /\ decomposeSyllable(lastOf(text)) =
         [initial |-> prevSyllable.final, vowel |-> key, final |-> Empty]

\* C3: a Final key k on a buffer ending in a syllable (i, v, f) with a final:
\* the compound combineFinals(f, k) replaces the final when it is defined;
\* otherwise k is appended when it is also an Initial; otherwise k replaces
\* the final.  The compound is tried before k is taken as an Initial.
C3_FinalOnFinal ==
  (AfterKeyOnSyllable /\ prevSyllable.final # Empty /\ isFinal(key)) =>
    text = IF getCompoundFinal(prevSyllable.final, key) # Empty
           THEN prefix \o combineJamo(prevSyllable.initial, prevSyllable.vowel,
                                      getCompoundFinal(prevSyllable.final, key))
           ELSE IF isInitial(key)
           THEN Append(prev, key)
           ELSE prefix \o combineJamo(prevSyllable.initial, prevSyllable.vowel, key)

\* gab + s = gabs: the key is also an Initial, yet the compound final is built
C3_Witness ==
  /\ op = "addJamo"
  /\ prev = << syl(ch_g, ch_a, ch_b) >>
  /\ key = ch_s
  /\ text = << syl(ch_g, ch_a, ch_bs) >>

\* C4: a Vowel key w on a buffer ending in a syllable (i, v) without a final:
\* the compound combineVowels(v, w) replaces the vowel when it is defined
\* (same length); otherwise w is appended.
C4_VowelOnOpenSyllable ==
  (AfterKeyOnSyllable /\ prevSyllable.final = Empty /\ isVowel(key)) =>
    IF combineVowels(prevSyllable.vowel, key) # Empty
    THEN /\ text = prefix \o combineJamo(prevSyllable.initial,
                                         combineVowels(prevSyllable.vowel, key),
                                         Empty)
         /\ Len(text) = Len(prev)
    ELSE text = Append(prev, key)

\* gu + eo = gwo
C4_Witness ==
  /\ op = "addJamo"
  /\ prev = << syl(ch_g, ch_u, Empty) >>
  /\ key = VOWELS[5]
  /\ text = << syl(ch_g, ch_wo, Empty) >>

\* C5: a Final key k (also when k is a valid Initial) on a buffer ending in
\* a syllable (i, v) without a final becomes its final: prefix +
\* compose(i, v, k), same length.
C5_AttachFinal ==
  (AfterKeyOnSyllable /\ prevSyllable.final = Empty /\ isFinal(key)) =>
    /\ text = prefix \o combineJamo(prevSyllable.initial, prevSyllable.vowel, key)
    /\ Len(text) = Len(prev)
    /\ decomposeSyllable(lastOf(text)).final = key

\* ga + n = gan, the key n being an Initial too
C5_Witness ==
  /\ op = "addJamo"
  /\ prev = << syl(ch_g, ch_a, Empty) >>
  /\ key = ch_n
  /\ isInitial(key)
  /\ text = << syl(ch_g, ch_a, ch_n) >>

\* the last call was addJamo on a buffer ending in a bare Initial
AfterKeyOnInitial ==
  /\ op = "addJamo"
  /\ Len(prev) > 0
  /\ isInitial(lastOf(prev))

\* C6: a Vowel key w on a buffer ending in a bare Initial c replaces c by
\* compose(c, w) and changes nothing else; a syllable with a final standing
\* before c is still there, final included.
C6_InitialPlusVowel ==
  (AfterKeyOnInitial /\ isVowel(key)) =>
    /\ text = prefix \o combineJamo(lastOf(prev), key, Empty)
    /\ Len(text) = Len(prev)
    /\ \A n \in 1..(Len(prev) - 1) : text[n] = prev[n]

\* gabs n + a = gabs na
C6_Witness ==
  /\ op = "addJamo"
  /\ prev = << syl(ch_g, ch_a, ch_bs), ch_n >>
  /\ key = ch_a
  /\ text = << syl(ch_g, ch_a, ch_bs), syl(ch_n, ch_a, Empty) >>

\* C7: an Initial key k on a buffer ending in a bare Initial replaces that
\* Initial, and so does every further Initial key: one trailing bare
\* Initial remains, the last one pressed.
C7_ReplaceInitial ==
  (AfterKeyOnInitial /\ isInitial(key)) =>
    /\ text = Append(prefix, key)
    /\ \A k2 \in Range(INITIALS) : addJamo(text, k2) = Append(prefix, k2)

\* g + n = n
C7_Witness ==
  /\ op = "addJamo"
  /\ prev = << ch_g >>
  /\ key = ch_n
  /\ text = << ch_n >>

\* C8: a key x outside the Initial, Vowel and Final sets is appended to any
\* buffer, and a second such key y is appended after it.
C8_OtherAppends ==
  (op = "addJamo" /\ key \in OtherChars) =>
    /\ text = Append(prev, key)
    /\ \A y \in OtherChars : addJamo(text, y) = prev \o << key, y >>

\* ga + ' ' = ga' '
C8_Witness ==
  /\ op = "addJamo"
  /\ prev = << syl(ch_g, ch_a, Empty) >>
  /\ key = 32
  /\ text = << syl(ch_g, ch_a, Empty), 32 >>

\* C9: on the empty buffer a key of the Final set (also one that is not an
\* Initial) or an Other key gives the one-character buffer of that key.
C9_EmptyFinalOrOther ==
  (op = "addJamo" /\ prev = << >> /\ (isFinal(key) \/ key \in OtherChars)) =>
    text = << key >>

\* C10: on the empty buffer an Initial key or a Vowel key gives the buffer
\* of exactly that key.
C10_EmptyInitialOrVowel ==
  (op = "addJamo" /\ prev = << >> /\ (isInitial(key) \/ isVowel(key))) =>
    text = << key >>

\* '' + a = a, a lone vowel jamo
C10_Witness ==
  /\ op = "addJamo"
  /\ prev = << >>
  /\ key = ch_a
  /\ text = << ch_a >>

\* the last call was handleBackspace on a non-empty buffer
AfterBackspace ==
  /\ op = "handleBackspace"
  /\ Len(prev) > 0

\* C11: handleBackspace is this four-case function: the empty buffer stays;
\* a last syllable with a final loses the final; a last syllable without a
\* final becomes its initial and its vowel as two bare jamo; any other last
\* character is removed.
C11_BackspaceCases ==
  (op = "handleBackspace") =>
    text = IF prev = << >> THEN prev
           ELSE IF isSyllable(lastOf(prev)) /\ prevSyllable.final # Empty
           THEN prefix \o combineJamo(prevSyllable.initial, prevSyllable.vowel, Empty)
           ELSE IF isSyllable(lastOf(prev))
           THEN prefix \o << prevSyllable.initial, prevSyllable.vowel >>
           ELSE prefix

\* backspace on ga leaves g a
C11_Witness ==
  /\ op = "handleBackspace"
  /\ prev = << syl(ch_g, ch_a, Empty) >>
  /\ text = << ch_g, ch_a >>

\* C12 as stated: the buffer is empty after at most 2 presses per character
\* of the starting buffer.
C12_EmptyWithinTwicePerChar ==
  (op = "erasing" /\ text # << >>) => pos < 2 * Len(target)

\* C12, amended: the buffer is empty after at most 4 presses per character
\* of the starting buffer.
C12_EmptyWithinFourPerChar ==
  (op = "erasing" /\ text # << >>) => pos < 4 * Len(target)

\* gabs is erased by exactly 4 presses
C12_Witness ==
  /\ op = "erasing"
  /\ target = << syl(ch_g, ch_a, ch_bs) >>
  /\ pos = 4
  /\ text = << >>
  /\ prev = << ch_g >>

\* the compound finals: the finals that are not a single consonant key
isCompoundFinal(final) == isFinal(final) /\ ~isInitial(final)

\* units of one character, a compound final counting as two consonants
unitsOf(char) ==
  IF ~isSyllable(char) THEN 1
  ELSE LET d == decomposeSyllable(char)
       IN  2 + (IF d.final = Empty THEN 0
                ELSE IF isCompoundFinal(d.final) THEN 2 ELSE 1)

\* units of one character, a final of either kind counting as one jamo
jamoOf(char) ==
  IF ~isSyllable(char) THEN 1
  ELSE 2 + (IF decomposeSyllable(char).final = Empty THEN 0 ELSE 1)

RECURSIVE units(_)
units(buffer) ==
  IF buffer = << >> THEN 0 ELSE unitsOf(Head(buffer)) + units(Tail(buffer))

RECURSIVE jamoCount(_)
jamoCount(buffer) ==
  IF buffer = << >> THEN 0 ELSE jamoOf(Head(buffer)) + jamoCount(Tail(buffer))

\* C13 as stated: every backspace on a non-empty buffer removes exactly one
\* unit, a syllable counting one unit per component jamo and per consonant
\* of its final.
C13_RemovesOneUnit ==
  AfterBackspace => units(text) = units(prev) - 1

\* C13, amended: counting a final (simple or compound) as one jamo, a
\* backspace on a non-empty buffer removes exactly one jamo, except on a
\* last syllable without a final, which is split into its two jamo with
\* nothing removed.
C13_RemovesAtMostOneJamo ==
  AfterBackspace =>
    jamoCount(text) =
      jamoCount(prev) - (IF isSyllable(lastOf(prev)) /\ prevSyllable.final = Empty
                         THEN 0 ELSE 1)

\* backspace on gabs leaves ga
C13_Witness ==
  /\ op = "handleBackspace"
  /\ prev = << syl(ch_g, ch_a, ch_bs) >>
  /\ text = << syl(ch_g, ch_a, Empty) >>

\* C17: on a buffer ending in a syllable with a compound final, no Final
\* key combines with that final: the key is appended when it is also an
\* Initial and replaces the final otherwise; and whatever combineFinals
\* returns is a member of the Finals set.
C17_CompoundFinalIsFinal ==
  /\ (op = "input") => \A e \in compoundFinals : isFinal(e[3])
  /\ (AfterKeyOnSyllable /\ prevSyllable.final # Empty /\ isFinal(key)) =>
       LET combined == getCompoundFinal(prevSyllable.final, key)
       IN  /\ combined # Empty => isFinal(combined)
           /\ isCompoundFinal(prevSyllable.final) =>
                /\ combined = Empty
                /\ text = IF isInitial(key)
                          THEN Append(prev, key)
                          ELSE prefix \o combineJamo(prevSyllable.initial,
                                                     prevSyllable.vowel, key)
                /\ decomposeSyllable(lastOf(text)) # Null =>
                     decomposeSyllable(lastOf(text)).final
                       \in {prevSyllable.final, key}

\* garg + s = garg s: rg does not grow into another compound
C17_Witness ==
  /\ op = "addJamo"
  /\ prev = << syl(ch_g, ch_a, ch_rg) >>
  /\ key = ch_s
  /\ text = << syl(ch_g, ch_a, ch_rg), ch_s >>

\* the last call was addJamo on a buffer ending in a bare vowel
AfterKeyOnVowel ==
  /\ op = "addJamo"
  /\ Len(prev) > 0
  /\ isVowel(lastOf(prev))

\* C19: every jamo key on a buffer ending in a bare Vowel is appended; two
\* standalone vowels are never merged.
C19_AppendAfterVowel ==
  (AfterKeyOnVowel /\ key \in Jamo) => text = Append(prev, key)

\* u + eo = u eo although combineVowels(u, eo) is defined
C19_Witness ==
  /\ op = "addJamo"
  /\ prev = << ch_u >>
  /\ key = VOWELS[5]
  /\ combineVowels(ch_u, VOWELS[5]) # Empty
  /\ text = << ch_u, VOWELS[5] >>

\* C20: a key that is an Initial but not a Final (tt, pp, jj) on a buffer
\* ending in a complete syllable, with or without a final, is appended and
\* the syllable stays as it is.
C20_InitialOnlyStartsNew ==
  (AfterKeyOnSyllable /\ isInitial(key) /\ ~isFinal(key)) =>
    /\ text = Append(prev, key)
    /\ key \in {INITIALS[5], INITIALS[9], INITIALS[14]}

\* ga + pp = ga pp
C20_Witness ==
  /\ op = "addJamo"
  /\ prev = << syl(ch_g, ch_a, Empty) >>
  /\ key = ch_pp
  /\ text = << syl(ch_g, ch_a, Empty), ch_pp >>

\* target is an (initial, vowel, final) triple of the 19 x 21 x 28 valid ones
ValidTriple ==
  /\ Len(target) = 3
  /\ target[1] \in Range(INITIALS)
  /\ target[2] \in Range(VOWELS)
  /\ target[3] \in Range(FINALS)

\* 0-based position of a member in a list without duplicates
indexIn(list, member) == (CHOOSE n \in 1..Len(list) : list[n] = member) - 1

\* C14: decompose(compose(initial, vowel, final)) is (initial, vowel, final)
\* for every initial, vowel and final (the empty final included).
C14_RoundTrip ==
  (op = "roundtrip" /\ ValidTriple) =>
    result = [initial |-> target[1], vowel |-> target[2], final |-> target[3]]

\* g, wa, bs -> gwabs -> g, wa, bs
C14_Witness ==
  /\ op = "roundtrip"
  /\ target = << ch_g, VOWELS[10], ch_bs >>
  /\ text = << HANGUL_BASE + 9 * 28 + 18 >>
  /\ result = [initial |-> ch_g, vowel |-> VOWELS[10], final |-> ch_bs]

\* C15: decompose of a code unit of the block gives a recognized initial, a
\* recognized vowel and a final of the Finals set, and compose of them gives
\* the code unit back; decompose of a code unit outside the block is null.
C15_InverseOnBlock ==
  /\ op = "decomposed" =>
       IF text[1] \in HANGUL_BASE..HANGUL_LAST
       THEN /\ result # Null
            /\ result.initial \in Range(INITIALS)
            /\ result.vowel \in Range(VOWELS)
            /\ result.final \in Range(FINALS)
       ELSE result = Null
  /\ op = "recomposed" => text = prev

\* the first syllable of the block, ga, comes back from its triple
C15_Witness ==
  /\ op = "recomposed"
  /\ prev = << HANGUL_BASE >>
  /\ result = [initial |-> ch_g, vowel |-> ch_a, final |-> Empty]
  /\ text = << HANGUL_BASE >>

\* C16: compose of a valid triple is the one code unit BASE + 588 * initial
\* index + 28 * vowel index + final index, inside the block; compose gives
\* the empty result exactly when the initial or the vowel is not in its set;
\* an empty final counts as final index 0.
C16_ComposeFormula ==
  (op = "composed") =>
    /\ ValidTriple =>
         /\ text = << HANGUL_BASE + indexIn(INITIALS, target[1]) * 588
                        + indexIn(VOWELS, target[2]) * 28
                        + indexIn(FINALS, target[3]) >>
         /\ text[1] \in HANGUL_BASE..HANGUL_LAST
    /\ text = << >> <=>
         (target[1] \notin Range(INITIALS) \/ target[2] \notin Range(VOWELS))
    /\ (ValidTriple /\ target[3] = Empty) =>
         text = << HANGUL_BASE + indexIn(INITIALS, target[1]) * 588
                     + indexIn(VOWELS, target[2]) * 28 >>

\* h, i, h -> U+D7A3, the last syllable of the block
C16_Witness ==
  /\ op = "composed"
  /\ target = << ch_h, VOWELS[21], FINALS[28] >>
  /\ text = << HANGUL_LAST >>

\* C18: when combineVowels(a, b) is defined, combineVowels(b, a) is not, and
\* the same for combineFinals.
C18_TablesAsymmetric ==
  (op \in {"combineVowels", "getCompoundFinal"}) =>
    (result.forward # Empty => result.backward = Empty)

\* o + a = wa, a + o is nothing
C18_Witness ==
  /\ op = "combineVowels"
  /\ target = << VOWELS[9], ch_a >>
  /\ result = [forward |-> VOWELS[10], backward |-> Empty]

\* the last call was addJamo on a buffer ending in a standalone Final that
\* is not also an Initial
AfterKeyOnFinalOnly ==
  /\ op = "addJamo"
  /\ Len(prev) > 0
  /\ isFinal(lastOf(prev))
  /\ ~isInitial(lastOf(prev))

\* C21: on a buffer ending in a standalone Final that is not also an
\* Initial, every Vowel or Initial key is appended: the result is the
\* buffer followed by the key, with no composition.
C21_AppendAfterFinalOnly ==
  (AfterKeyOnFinalOnly /\ (isVowel(key) \/ isInitial(key))) =>
    text = Append(prev, key)

\* gs + a = gs a
C21_Witness ==
  /\ op = "addJamo"
  /\ prev = << FINALS[4] >>
  /\ key = ch_a
  /\ text = << FINALS[4], ch_a >>

\* the buffer cut after its first n characters
prefixOf(buffer, n) == SubSeq(buffer, 1, n)

suffixOf(buffer, n) == SubSeq(buffer, n + 1, Len(buffer))

\* C24: addJamo and handleBackspace act only on the end of the buffer: for
\* every split of the buffer into a non-empty prefix p and a non-empty
\* suffix t, the result is p followed by the result on t alone, and no
\* character other than the last one of the input is changed or removed.
C24_ActsOnEnd ==
  (op \in {"addJamo", "handleBackspace"} /\ Len(prev) > 0) =>
    /\ \A n \in 1..(Len(prev) - 1) :
         text = prefixOf(prev, n)
                  \o (IF op = "addJamo" THEN addJamo(suffixOf(prev, n), key)
                      ELSE handleBackspace(suffixOf(prev, n)))
    /\ Len(text) >= Len(prev) - 1
    /\ \A n \in 1..(Len(prev) - 1) : text[n] = prev[n]

\* gabs n + a = gabs na: the syllable looked back at is unchanged
C24_Witness ==
  /\ op = "addJamo"
  /\ prev = << syl(ch_g, ch_a, ch_bs), ch_n >>
  /\ key = ch_a
  /\ text = << syl(ch_g, ch_a, ch_bs), syl(ch_n, ch_a, Empty) >>

\* C25: the result of addJamo on a single-character key has the length of
\* the buffer or one more.
C25_LengthGrowsByAtMostOne ==
  (op = "addJamo") => Len(text) \in {Len(prev), Len(prev) + 1}

\* gag + a = ga ga is one longer
C25_Witness ==
  /\ op = "addJamo"
  /\ prev = << syl(ch_g, ch_a, ch_g) >>
  /\ key = ch_a
  /\ text = << syl(ch_g, ch_a, Empty), syl(ch_g, ch_a, Empty) >>

\* backspace presses one character takes: 4 for a syllable with a final, 3
\* for a syllable without, 1 for anything else
pressesOf(char) ==
  IF ~isSyllable(char) THEN 1
  ELSE IF decomposeSyllable(char).final # Empty THEN 4 ELSE 3

RECURSIVE presses(_)
presses(buffer) ==
  IF buffer = << >> THEN 0 ELSE pressesOf(Head(buffer)) + presses(Tail(buffer))

\* C26: the number of handleBackspace steps that empty a buffer is exactly
\* the sum over its characters of 4, 3 or 1; each step decreases that sum
\* by one, and the sum is at most 4 times the character count.
C26_ExactPresses ==
  (op = "erasing") =>
    /\ pos + presses(text) = presses(target)
    /\ pos > 0 => presses(text) = presses(prev) - 1
    /\ text = << >> => pos = presses(target)
    /\ presses(target) <= 4 * Len(target)

\* n gabs is erased by exactly 1 + 4 presses
C26_Witness ==
  /\ op = "erasing"
  /\ target = << ch_n, syl(ch_g, ch_a, ch_bs) >>
  /\ pos = 5
  /\ text = << >>

\* C27 as stated: when a Final key on a buffer ending in a syllable leaves
\* the length unchanged, one backspace gives the buffer back.
C27_BackspaceUndoesFinal ==
  (AfterKeyOnSyllable /\ isFinal(key) /\ Len(text) = Len(prev)) =>
    handleBackspace(text) = prev

\* C27, amended: when a Final key on a buffer ending in a syllable without
\* a final leaves the length unchanged, one backspace gives the buffer back.
C27_BackspaceUndoesAttachedFinal ==
  (AfterKeyOnSyllable /\ prevSyllable.final = Empty /\ isFinal(key)
     /\ Len(text) = Len(prev)) =>
    handleBackspace(text) = prev

\* ga + b = gab, and backspace on gab is ga
C27_Witness ==
  /\ op = "addJamo"
  /\ prev = << syl(ch_g, ch_a, Empty) >>
  /\ key = ch_b
  /\ text = << syl(ch_g, ch_a, ch_b) >>
  /\ handleBackspace(text) = prev

\* C22: on the typing screen the buffer starts empty; every step that
\* changes currentWordIndex also sets text to the empty string; and a Skip
\* or Next that finds no further word changes neither the index nor the text.
C22_TextResetWithIndex ==
  /\ text = << >>
  /\ [][/\ currentWordIndex' # currentWordIndex => text' = << >>
        /\ op' = "no more words" => UNCHANGED <<currentWordIndex, text>>]_vars

\* Skip on the first word with g typed: the index is 1 and the text empty
C22_Witness ==
  /\ op = "handleSkip"
  /\ currentWordIndex = 1
  /\ prev = << ch_g >>
  /\ text = << >>

\* C23: initializeDatabase is idempotent: a second run on a database it has
\* already initialized leaves the words table and the stored schema version
\* as they were; no word is seeded a second time.
C23_InitializeIdempotent ==
  (op = "database" /\ pos >= 2) =>
    /\ db.words = dbBefore.words
    /\ db.versions = dbBefore.versions

\* the second run on a freshly seeded database
C23_Witness ==
  /\ op = "database"
  /\ pos = 2
  /\ db.versions = {DB_VERSION}
  /\ Len(db.words) = Len(commonWordsData) + Len(lettersData)
  /\ dbBefore = db

inBlock(char) == char \in HANGUL_BASE..HANGUL_LAST

isCompoundVowel(char) == \E e \in combinations : e[3] = char

C30_NoRowTwice ==
  \A m, n \in DOMAIN wordsBatch :
    m # n => wordsBatch[m].id # wordsBatch[n].id

\* rows of the words table that hold this word in this vocabulary set
occurrences(d, word, vocabularySet) ==
  Cardinality({n \in DOMAIN d.words :
                 /\ d.words[n].korean = word.korean
                 /\ d.words[n].english = word.english
                 /\ d.words[n].vocabulary_set = vocabularySet})

\* every bundled word of both sets is in the table exactly once
seededOnce(d) ==
  /\ \A n \in DOMAIN commonWordsData :
       occurrences(d, commonWordsData[n], "common-words") = 1
  /\ \A n \in DOMAIN lettersData :
       occurrences(d, lettersData[n], "letters") = 1

\* C31: after resetDatabase on an initialized database, the words table
\* holds every bundled word of both vocabulary sets exactly once and the
\* stored version is DB_VERSION.
C31_ResetReseedsOnce ==
  (op = "resetDatabase") =>
    /\ seededOnce(db)
    /\ db.versions = {DB_VERSION}

\* C32: after initializeDatabase from any starting database there is
\* exactly one version row and it is DB_VERSION; started without a
\* database, every bundled word of both sets is present exactly once.
C32_VersionRowAndFreshSeed ==
  (op = "database" /\ pos >= 1) =>
    /\ db.versions = {DB_VERSION}
    /\ (pos = 1 /\ dbBefore = NoDatabase) => seededOnce(db)

\* the first run without a database file
C32_Witness ==
  /\ op = "database"
  /\ pos = 1
  /\ dbBefore = NoDatabase
  /\ db.versions = {DB_VERSION}
  /\ Len(db.words) = Len(commonWordsData) + Len(lettersData)

\* C33: the shift key toggles the shift state; a character key emits the
\* key at its place in the layout the shift state selects (the shifted
\* layout when shift is on, the base layout when it is off) and leaves
\* shift off; backspace, space and enter leave the shift state unchanged.
C33_ShiftReleasedAfterOneKey ==
  [][/\ op' = "shift" => isShiftPressed' = ~isShiftPressed
     /\ op' = "key" =>
          /\ key' = IF isShiftPressed
                      THEN SHIFT_KEYBOARD_LAYOUT[target'[1]][target'[2]]
                      ELSE BASE_KEYBOARD_LAYOUT[target'[1]][target'[2]]
          /\ isShiftPressed' = FALSE
     /\ op' \in {"backspace", "space", "enter"} =>
          isShiftPressed' = isShiftPressed]_vars

\* shift, then the first key of the first row: pp is emitted and shift is off
C33_Witness ==
  /\ op = "key"
  /\ pos = 2
  /\ target = <<1, 1>>
  /\ key = ch_pp
  /\ text = <<ch_pp>>
  /\ ~isShiftPressed

====
